---- MODULE Spec2Model ----
(***************************************************************************)
(* Pneumatic-Gun-Simulators: the gas-spring derivative functions of the    *)
(* four simulation variants (nomad.py, nomad_ui.py, spring_piston.py,      *)
(* dart_plunger_gui.py), the run each variant makes around the external    *)
(* integrator, and the handlers of the two GUI variants.                   *)
(*                                                                         *)
(* The specifications of the module:                                       *)
(*   SpecRun  one simulation run of one variant, with numbers: the         *)
(*            derivative function, the integrator's evaluations, the       *)
(*            caller's handling of the success flag, the derived pressure. *)
(*   Spec     the GUI: widgets, the parameter dictionary, load/save/reset  *)
(*            handlers on the main thread and run_simulation on worker     *)
(*            threads.                                                     *)
(*   SpecOrder  the run requests of Spec with the widget values at the     *)
(*            latest request recorded.                                     *)
(*   SpecLive  Spec with fair scheduling of the worker threads.            *)
(*   SpecFile  dart_plunger_gui.py with the file system kept: a load      *)
(*            reads what is in the file, which a save may have written.    *)
(***************************************************************************)
EXTENDS Integers, Sequences, FiniteSets, TLC

VARIABLES
    \* ---- SpecRun: one numeric run
    sim_variant,    \* which file's code runs
    sim_params,     \* the parameter set (module constants or self.params)
    sim_pc,         \* position of the caller around solve_ivp
    x,              \* state vector of the integrator's latest evaluation
    dxdt,           \* what system(t, x) returned for it (Null before the first call)
    p_t,            \* system's local p_t at that evaluation
    sol,            \* the integrator's result: success flag, last sample, p_t there
    p_t_array       \* post-integration derived pressure at the last sample

runVars == <<sim_variant, sim_params, sim_pc, x, dxdt, p_t, sol, p_t_array>>

VARIABLES
    \* ---- Spec: a GUI variant
    app,                \* which GUI class runs
    params,             \* self.params
    param_vars,         \* self.param_vars: the widgets' display values
    status_label,       \* text of self.status_label
    messagebox,         \* text of the latest messagebox.showerror
    current_param_file, \* self.current_param_file, shown by self.file_label
    plots,              \* what the axes show
    results_text,       \* what self.results_text shows (dart_plunger_gui.py)
    threads,            \* the worker threads running run_simulation
    requested,          \* history: the widget values at the latest run request
                        \* (recorded in SpecOrder; Null where it is not)
    files               \* the file system under the dialogs' paths: what a file
                        \* holds, whether save_parameters wrote it and whether
                        \* load_parameters has read it since (kept in SpecFile;
                        \* Null where a file's content is an input)

guiVars == <<app, params, param_vars, status_label, messagebox,
             current_param_file, plots, results_text, threads, requested,
             files>>

vars == <<runVars, guiVars>>

\* "not computed yet"; whether a value has been computed is read off sim_pc
Null == <<>>

\* the derivative function has been called at x
Evaluated == sim_pc # "start"

(***************************************************************************)
(* Floating-point values.  A value is n/d with d >= 0 in lowest terms;     *)
(* d = 0 encodes the non-finite values numpy produces instead of raising:  *)
(* 1/0 is +inf, -1/0 is -inf, 0/0 is NaN.                                  *)
(***************************************************************************)
RECURSIVE GCD(_, _)
GCD(a, b) == IF b = 0 THEN a ELSE GCD(b, a % b)

Abs(i) == IF i < 0 THEN -i ELSE i

Sign(i) == IF i < 0 THEN -1 ELSE IF i > 0 THEN 1 ELSE 0

Norm(n, d) ==
    IF d = 0 THEN [n |-> Sign(n), d |-> 0]
    ELSE LET s == IF d < 0 THEN -1 ELSE 1
             g == GCD(Abs(n), Abs(d))
         IN  [n |-> (s * n) \div g, d |-> (s * d) \div g]

R(i) == [n |-> i, d |-> 1]

NaN == [n |-> 0, d |-> 0]

IsNaN(a) == a.n = 0 /\ a.d = 0

IsFinite(a) == a.d > 0

Mul(a, b) == Norm(a.n * b.n, a.d * b.d)

Inv(a) == IF a.n < 0 THEN Norm(-a.d, -a.n) ELSE Norm(a.d, a.n)

Div(a, b) == Mul(a, Inv(b))

Add(a, b) ==
    IF a.d = 0 /\ b.d = 0 /\ a.n = b.n THEN a
    ELSE Norm(a.n * b.d + b.n * a.d, a.d * b.d)

Neg(a) == [n |-> -a.n, d |-> a.d]

Sub(a, b) == Add(a, Neg(b))

\* a < b; FALSE when either is NaN
Less(a, b) == ~IsNaN(a) /\ ~IsNaN(b) /\ a.n * b.d < b.n * a.d

\* a <= b; FALSE when either is NaN
LessEq(a, b) == ~IsNaN(a) /\ ~IsNaN(b) /\ a.n * b.d <= b.n * a.d

\* np.maximum: the larger value, NaN when either is NaN
Maximum(a, b) ==
    IF IsNaN(a) \/ IsNaN(b) THEN NaN ELSE IF Less(a, b) THEN b ELSE a

\* floor of the square root of a natural number
Isqrt(m) == CHOOSE r \in 0..m : r * r <= m /\ (r + 1) * (r + 1) > m

\* sqrt of a value >= 0, rounded down to the value's own denominator
Sqrt(a) == IF a.d = 0 THEN a ELSE Norm(Isqrt(a.n * a.d), a.d)

RECURSIVE IntPow(_, _)
IntPow(base, g) == IF g = 0 THEN R(1) ELSE Mul(base, IntPow(base, g - 1))

\* base ** g as numpy computes it, for an exponent g = n/1 or n/2 with n > 0:
\* a negative base under a fractional exponent is NaN
Pow(base, g) ==
    IF g.d = 1 THEN IntPow(base, g.n)
    ELSE IF IsNaN(base) \/ base.n < 0 THEN NaN
    ELSE IntPow(Sqrt(base), g.n)

\* np.pi, to the precision the model's integers allow
PI == [n |-> 22, d |-> 7]

AllFinite(v) == \A i \in 1..Len(v) : IsFinite(v[i])

(***************************************************************************)
(* nomad.py: single body, parameters are module-level constants.           *)
(***************************************************************************)
\* area = np.pi * (D**2) / 4
NomadArea(P) == Div(Mul(PI, IntPow(R(P.D), 2)), R(4))

\* friction = fric1 if x1 <= 0.005 else fric2
NomadFriction(P, x1) ==
    IF LessEq(x1, [n |-> 5, d |-> 1000]) THEN R(P.fric1) ELSE R(P.fric2)

\* the base of the exponentiation: v_t / v_0 with v_t = v_0 + area * x1
NomadRatio(P, x1) ==
    LET v_t == Add(R(P.v_0), Mul(NomadArea(P), x1))
    IN  Div(v_t, R(P.v_0))

\* p_t = p_0 / ((v_t / v_0) ** gamma)
NomadPressure(P, x1) == Div(R(P.p_0), Pow(NomadRatio(P, x1), P.gamma))

\* NomadSystem subtracting the selected friction, as nomad_ui.py does
NomadSystemSelected(P, s) ==
    LET x1 == s[1]
        x2 == s[2]
        friction == NomadFriction(P, x1)
        pressure_force == Mul(Sub(NomadPressure(P, x1), R(P.p_2)), NomadArea(P))
        dx2dt == Div(Sub(pressure_force, friction), R(P.mass))
    IN  <<x2, dx2dt>>

\* system(t, x1x2): the selected friction is computed and fric1 is subtracted
NomadSystem(P, s) ==
    LET x1 == s[1]
        x2 == s[2]
        friction == NomadFriction(P, x1)
        pressure_force == Mul(Sub(NomadPressure(P, x1), R(P.p_2)), NomadArea(P))
        dx2dt == Div(Sub(pressure_force, R(P.fric1)), R(P.mass))
    IN  <<x2, dx2dt>>

\* the derived p_t over sol.y[0], here at one sample y
NomadDerivedPressure(P, y) ==
    LET v_t == Add(R(P.v_0), Mul(NomadArea(P), y[1]))
    IN  Div(R(P.p_0), Pow(Div(v_t, R(P.v_0)), P.gamma))

(***************************************************************************)
(* nomad_ui.py: single body with an expansion chamber, self.params.        *)
(***************************************************************************)
NomadUiArea(P) == Div(Mul(PI, IntPow(R(P.D), 2)), R(4))

\* NomadUiFriction with the comparison turned round
NomadUiFrictionSwapped(P, x1) ==
    IF LessEq([n |-> 3, d |-> 100], x1) THEN R(P.fric1) ELSE R(P.fric2)

\* friction = fric1 if x1 <= 0.03 else fric2
NomadUiFriction(P, x1) ==
    IF LessEq(x1, [n |-> 3, d |-> 100]) THEN R(P.fric1) ELSE R(P.fric2)

\* the base of the exponentiation: v_t / v_0 with v_t = v_expand + v_0 + area * x1
NomadUiRatio(P, x1) ==
    LET v_t == Add(Add(R(P.v_expand), R(P.v_0)), Mul(NomadUiArea(P), x1))
    IN  Div(v_t, R(P.v_0))

\* p_t = p_0 / ((v_t / v_0) ** gamma)
NomadUiPressure(P, x1) == Div(R(P.p_0), Pow(NomadUiRatio(P, x1), P.gamma))

NomadUiSystem(P, s) ==
    LET x1 == s[1]
        x2 == s[2]
        friction == NomadUiFriction(P, x1)
        pressure_force == Mul(Sub(NomadUiPressure(P, x1), R(P.p_2)), NomadUiArea(P))
        dx2dt == Div(Sub(pressure_force, friction), R(P.mass))
    IN  <<x2, dx2dt>>

NomadUiDerivedPressure(P, y) ==
    LET v_t == Add(Add(R(P.v_expand), R(P.v_0)), Mul(NomadUiArea(P), y[1]))
    IN  Div(R(P.p_0), Pow(Div(v_t, R(P.v_0)), P.gamma))

(***************************************************************************)
(* spring_piston.py: dart and plunger, module-level constants, no floor    *)
(* on the volume ratio.                                                    *)
(***************************************************************************)
SpringPistonAreaB(P) == Div(Mul(PI, IntPow(R(P.D_b), 2)), R(4))

SpringPistonAreaP(P) == Div(Mul(PI, IntPow(R(P.D_p), 2)), R(4))

\* v_0 = L_0 * area_p
SpringPistonV0(P) == Mul(R(P.L_0), SpringPistonAreaP(P))

\* the base of the exponentiation: ((L_0 - p1) * area_p + d1 * area_b) / v_0
SpringPistonRatio(P, d1, p1) ==
    Div(Add(Mul(Sub(R(P.L_0), p1), SpringPistonAreaP(P)),
            Mul(d1, SpringPistonAreaB(P))),
        SpringPistonV0(P))

SpringPistonPressure(P, d1, p1) ==
    Div(R(P.p_0), Pow(SpringPistonRatio(P, d1, p1), P.gamma))

\* system(t, x) with x = d1, d2, p1, p2 ; xsf = xso + L_0
SpringPistonSystem(P, s) ==
    LET d1 == s[1]
        d2 == s[2]
        p1 == s[3]
        p2 == s[4]
        xsf == Add(R(P.xso), R(P.L_0))
        pt == SpringPistonPressure(P, d1, p1)
        dp2dt == Div(Add(Mul(Sub(R(P.p_2), pt), SpringPistonAreaP(P)),
                         Mul(R(P.k), Sub(xsf, p1))),
                     R(P.mass_p))
        dd2dt == Div(Mul(Sub(pt, R(P.p_2)), SpringPistonAreaB(P)), R(P.mass_d))
    IN  <<d2, dd2dt, p2, dp2dt>>

\* p_t_array, at one sample y = d1_pos, d1_vel, p1_pos, p1_vel
SpringPistonDerivedPressure(P, y) ==
    Div(R(P.p_0),
        Pow(Div(Add(Mul(Sub(R(P.L_0), y[3]), SpringPistonAreaP(P)),
                    Mul(y[1], SpringPistonAreaB(P))),
                SpringPistonV0(P)),
            P.gamma))

(***************************************************************************)
(* dart_plunger_gui.py: dart and plunger, self.params, volume ratio        *)
(* floored before the exponentiation.                                      *)
(***************************************************************************)
\* The floor 1e-10 of np.maximum(ratio, 1e-10).  Its powers must fit TLC's
\* 32-bit integers, so the model takes 1/100: like 1e-10 it lies below every
\* positive raw ratio the bounded inputs produce.
VolumeRatioFloor == [n |-> 1, d |-> 100]

DartPlungerAreaB(P) == Div(Mul(PI, IntPow(R(P.D_b), 2)), R(4))

DartPlungerAreaP(P) == Div(Mul(PI, IntPow(R(P.D_p), 2)), R(4))

\* DartPlungerV0 taken over the barrel's area
DartPlungerV0Barrel(P) == Mul(R(P.L_0), DartPlungerAreaB(P))

\* v_0 = L_0 * area_p
DartPlungerV0(P) == Mul(R(P.L_0), DartPlungerAreaP(P))

\* the raw ratio, before the floor
DartPlungerRawRatio(P, d1, p1) ==
    Div(Add(Mul(Sub(R(P.L_0), p1), DartPlungerAreaP(P)),
            Mul(d1, DartPlungerAreaB(P))),
        DartPlungerV0(P))

\* volume_ratio = np.maximum(raw, 1e-10): the base of the exponentiation
DartPlungerRatio(P, d1, p1) ==
    Maximum(DartPlungerRawRatio(P, d1, p1), VolumeRatioFloor)

DartPlungerPressure(P, d1, p1) ==
    Div(R(P.p_0), Pow(DartPlungerRatio(P, d1, p1), P.gamma))

\* DartPlungerSystem with the selected friction taken off the dart's force
DartPlungerSystemWithFriction(P, s) ==
    LET d1 == s[1]
        d2 == s[2]
        p1 == s[3]
        p2 == s[4]
        xsf == Add(R(P.xso), R(P.L_0))
        pt == DartPlungerPressure(P, d1, p1)
        friction == IF LessEq(d1, R(0)) THEN R(P.fric1) ELSE R(P.fric2)
        dp2dt == Div(Add(Mul(Sub(R(P.p_2), pt), DartPlungerAreaP(P)),
                         Mul(R(P.k), Sub(xsf, p1))),
                     R(P.mass_p))
        dd2dt == Div(Sub(Mul(Sub(pt, R(P.p_2)), DartPlungerAreaB(P)), friction),
                     R(P.mass_d))
    IN  <<d2, dd2dt, p2, dp2dt>>

DartPlungerSystem(P, s) ==
    LET d1 == s[1]
        d2 == s[2]
        p1 == s[3]
        p2 == s[4]
        xsf == Add(R(P.xso), R(P.L_0))
        pt == DartPlungerPressure(P, d1, p1)
        dp2dt == Div(Add(Mul(Sub(R(P.p_2), pt), DartPlungerAreaP(P)),
                         Mul(R(P.k), Sub(xsf, p1))),
                     R(P.mass_p))
        dd2dt == Div(Mul(Sub(pt, R(P.p_2)), DartPlungerAreaB(P)), R(P.mass_d))
    IN  <<d2, dd2dt, p2, dp2dt>>

\* DartPlungerDerivedPressure without the floor, as spring_piston.py has it
DartPlungerDerivedPressureNoFloor(P, y) ==
    Div(R(P.p_0),
        Pow(Div(Add(Mul(Sub(R(P.L_0), y[3]), DartPlungerAreaP(P)),
                    Mul(y[1], DartPlungerAreaB(P))),
                DartPlungerV0(P)),
            P.gamma))

\* p_t_array of run_simulation, at one sample
DartPlungerDerivedPressure(P, y) ==
    LET volume_ratio ==
            Maximum(Div(Add(Mul(Sub(R(P.L_0), y[3]), DartPlungerAreaP(P)),
                            Mul(y[1], DartPlungerAreaB(P))),
                        DartPlungerV0(P)),
                    VolumeRatioFloor)
    IN  Div(R(P.p_0), Pow(volume_ratio, P.gamma))

(***************************************************************************)
(* The four variants behind one interface.                                 *)
(***************************************************************************)
Variants == {"nomad", "nomad_ui", "spring_piston", "dart_plunger_gui"}

SingleBody == {"nomad", "nomad_ui"}

TwoBody == {"spring_piston", "dart_plunger_gui"}

GuiVariants == {"nomad_ui", "dart_plunger_gui"}

\* the derivative function of variant v
System(v, P, s) ==
    CASE v = "nomad" -> NomadSystem(P, s)
      [] v = "nomad_ui" -> NomadUiSystem(P, s)
      [] v = "spring_piston" -> SpringPistonSystem(P, s)
      [] v = "dart_plunger_gui" -> DartPlungerSystem(P, s)

\* the local p_t of that derivative function
SystemPressure(v, P, s) ==
    CASE v = "nomad" -> NomadPressure(P, s[1])
      [] v = "nomad_ui" -> NomadUiPressure(P, s[1])
      [] v = "spring_piston" -> SpringPistonPressure(P, s[1], s[3])
      [] v = "dart_plunger_gui" -> DartPlungerPressure(P, s[1], s[3])

\* the base of the exponentiation inside that derivative function
SystemPowBase(v, P, s) ==
    CASE v = "nomad" -> NomadRatio(P, s[1])
      [] v = "nomad_ui" -> NomadUiRatio(P, s[1])
      [] v = "spring_piston" -> SpringPistonRatio(P, s[1], s[3])
      [] v = "dart_plunger_gui" -> DartPlungerRatio(P, s[1], s[3])

\* the post-integration pressure of variant v at sample y
DerivedPressure(v, P, y) ==
    CASE v = "nomad" -> NomadDerivedPressure(P, y)
      [] v = "nomad_ui" -> NomadUiDerivedPressure(P, y)
      [] v = "spring_piston" -> SpringPistonDerivedPressure(P, y)
      [] v = "dart_plunger_gui" -> DartPlungerDerivedPressure(P, y)

(***************************************************************************)
(* SpecRun: one run of one variant.  The integrator is external: it calls  *)
(* the derivative function at the initial state and then at states of its  *)
(* own choosing, and returns a success flag and the sampled trajectory, of *)
(* which the model keeps the last sample.                                  *)
(***************************************************************************)
MaxParam == 2

ParamVals == 1..MaxParam

\* adiabatic indices: one integral, one fractional
Gammas == {R(2), [n |-> 3, d |-> 2]}

NomadParams ==
    [p_0 : ParamVals, p_2 : ParamVals, D : ParamVals, gamma : Gammas,
     v_0 : {1, 2}, mass : {1, 2}, fric1 : {1, 2}, fric2 : {0}]

NomadUiParams ==
    [p_0 : ParamVals, p_2 : ParamVals, D : ParamVals, gamma : Gammas,
     v_0 : {1, 2}, v_expand : {0, 1}, mass : {1}, fric1 : {1, 2}, fric2 : {0}]

TwoBodyParams ==
    [p_0 : ParamVals, p_2 : ParamVals, D_b : {1}, D_p : {1, 2}, gamma : Gammas,
     mass_d : {1}, mass_p : {1, 2}, fric1 : {1}, fric2 : {0},
     xso : {1}, L_0 : ParamVals, k : {0, 1}]

ParamSets(v) ==
    CASE v = "nomad" -> NomadParams
      [] v = "nomad_ui" -> NomadUiParams
      [] v \in TwoBody -> TwoBodyParams

\* displacements behind, at and ahead of the rest position
Positions == {R(-1), R(0), R(1)}

Velocities == {R(0), R(1)}

\* x0 = [0, 0] and x0 = [0, 0, 0, 0]
X0(v) == IF v \in SingleBody THEN <<R(0), R(0)>> ELSE <<R(0), R(0), R(0), R(0)>>

\* the states the integrator may evaluate the derivative function at
TrialStates(v) ==
    IF v \in SingleBody
    THEN {<<a, b>> : a \in Positions, b \in Velocities}
    ELSE {<<a, R(1), c, R(1)>> : a \in Positions, c \in Positions}

\* the GUI variables, unused by SpecRun
GuiUnused ==
    /\ app = Null
    /\ params = Null
    /\ param_vars = Null
    /\ status_label = Null
    /\ messagebox = Null
    /\ current_param_file = Null
    /\ plots = Null
    /\ results_text = Null
    /\ threads = Null
    /\ requested = Null
    /\ files = Null

InitRun ==
    /\ sim_variant \in Variants
    /\ sim_params \in ParamSets(sim_variant)
    /\ sim_pc = "start"
    /\ x = X0(sim_variant)
    /\ dxdt = Null
    /\ p_t = Null
    /\ sol = Null
    /\ p_t_array = Null
    /\ GuiUnused

\* solve_ivp's first call of the derivative function, at x0
FirstEval ==
    /\ sim_pc = "start"
    /\ dxdt' = System(sim_variant, sim_params, x)
    /\ p_t' = SystemPressure(sim_variant, sim_params, x)
    /\ sim_pc' = "integrate"
    /\ UNCHANGED <<sim_variant, sim_params, x, sol, p_t_array>>
    /\ UNCHANGED guiVars

\* a later call, at a state of the integrator's choosing
Eval(s) ==
    /\ sim_pc = "integrate"
    /\ x' = s
    /\ dxdt' = System(sim_variant, sim_params, s)
    /\ p_t' = SystemPressure(sim_variant, sim_params, s)
    /\ UNCHANGED <<sim_variant, sim_params, sim_pc, sol, p_t_array>>
    /\ UNCHANGED guiVars

\* solve_ivp returns with the latest state as its last sample; it may report
\* non-success for reasons of its own (step size)
SolverReturn(ok) ==
    /\ sim_pc = "integrate"
    /\ AllFinite(dxdt)
    /\ sol' = [success |-> ok, y |-> x, p_t |-> p_t]
    /\ sim_pc' = "returned"
    /\ UNCHANGED <<sim_variant, sim_params, x, dxdt, p_t, p_t_array>>
    /\ UNCHANGED guiVars

\* solve_ivp met a non-finite derivative: it reports non-success and returns
\* the samples it has, the initial one
SolverDiverged ==
    /\ sim_pc = "integrate"
    /\ ~AllFinite(dxdt)
    /\ sol' = [success |-> FALSE, y |-> X0(sim_variant),
               p_t |-> SystemPressure(sim_variant, sim_params, X0(sim_variant))]
    /\ sim_pc' = "returned"
    /\ UNCHANGED <<sim_variant, sim_params, x, dxdt, p_t, p_t_array>>
    /\ UNCHANGED guiVars

\* run_simulation of the GUI variants: if not sol.success: raise
RunSimulationCheck ==
    /\ sim_pc = "returned"
    /\ sim_variant \in GuiVariants
    /\ sim_pc' = IF sol.success THEN "derive" ELSE "failed"
    /\ UNCHANGED <<sim_variant, sim_params, x, dxdt, p_t, sol, p_t_array>>
    /\ UNCHANGED guiVars

\* the scripts go on to the derived quantities without looking at sol.success
ScriptContinue ==
    /\ sim_pc = "returned"
    /\ sim_variant \notin GuiVariants
    /\ sim_pc' = "derive"
    /\ UNCHANGED <<sim_variant, sim_params, x, dxdt, p_t, sol, p_t_array>>
    /\ UNCHANGED guiVars

\* the derived pressure over the trajectory
Derive ==
    /\ sim_pc = "derive"
    /\ p_t_array' = DerivedPressure(sim_variant, sim_params, sol.y)
    /\ sim_pc' = "done"
    /\ UNCHANGED <<sim_variant, sim_params, x, dxdt, p_t, sol>>
    /\ UNCHANGED guiVars

NextRun ==
    \/ FirstEval
    \/ \E s \in TrialStates(sim_variant) : Eval(s)
    \/ \E ok \in BOOLEAN : SolverReturn(ok)
    \/ SolverDiverged
    \/ RunSimulationCheck
    \/ ScriptContinue
    \/ Derive

SpecRun == InitRun /\ [][NextRun]_vars

(***************************************************************************)
(* Spec: a GUI variant.  The handlers of buttons and keys run one at a     *)
(* time on the main thread; every run request starts a worker thread that  *)
(* executes run_simulation, and the workers interleave with each other and *)
(* with the handlers.  The parameter set is cut down to two keys per       *)
(* variant, and a value is a small code: a number from 1 on for a value    *)
(* inside the parameter's physical range, 0 for a number outside it (a     *)
(* diameter of 0 or less), or Bad for one that is no number.  What a run   *)
(* computes is represented by the parameter values it was computed from.   *)
(***************************************************************************)
MaxVal == 2

MM_PER_METER == 1000

\* a value that is no number (a widget holding "abc", a string in a pickle)
Bad == 0 - 1

\* two worker threads at a time
Threads == {1, 2}

Apps == {"dart_plunger_gui", "nomad_ui"}

\* the keys of self.params, in the order the dictionary lists them
ParamKeys(a) ==
    IF a = "dart_plunger_gui" THEN <<"D_b", "gamma">> ELSE <<"p_0", "v_expand">>

KeySet(a) == {ParamKeys(a)[i] : i \in 1..Len(ParamKeys(a))}

\* the values the model lets a key take, in a widget or in a file
ValsOf(key) ==
    CASE key = "p_0" -> 1..MaxVal
      [] key = "D_b" -> 0..(MaxVal - 1)
      [] key = "gamma" -> {1, Bad}
      [] key = "v_expand" -> {1, 2, Bad}
      [] OTHER -> {1}

\* self.params as __init__ sets it
Defaults(a) ==
    IF a = "dart_plunger_gui" THEN [D_b |-> 1, gamma |-> 1]
    ELSE [p_0 |-> 2, v_expand |-> 1]

\* the defaults dictionary of reset_parameters: another p_0, no v_expand
ResetDefaults == [p_0 |-> 1]

\* self.display_converters: D_b is shown in mm
Converted(a) == IF a = "dart_plunger_gui" THEN {"D_b"} ELSE {}

\* _param_to_display; a non-number stays one
ParamToDisplay(a, key, value) ==
    IF value = Bad THEN Bad
    ELSE IF key \in Converted(a) THEN value * MM_PER_METER ELSE value

\* a _param_from_display that leaves the display units
ParamFromDisplayUnconverted(a, key, value) == value

\* _param_from_display
ParamFromDisplay(a, key, value) ==
    IF key \in Converted(a) THEN value \div MM_PER_METER ELSE value

\* the part of a dictionary the simulation reads
Physical(a, p) == [k \in KeySet(a) |-> p[k]]

HasBad(a, p) == \E k \in KeySet(a) : p[k] = Bad

\* _update_params_from_vars, and the same loop in nomad_ui.run_simulation,
\* from key i on: var.get() raises TclError at the first widget that holds
\* no number, with the keys before it already written
RECURSIVE UpdateParamsFromVars(_, _, _, _)
UpdateParamsFromVars(a, i, vs, p) ==
    IF i > Len(ParamKeys(a)) THEN [params |-> p, ok |-> TRUE]
    ELSE LET key == ParamKeys(a)[i]
         IN  IF vs[key] = Bad THEN [params |-> p, ok |-> FALSE]
             ELSE UpdateParamsFromVars(a, i + 1, vs,
                      [p EXCEPT ![key] = ParamFromDisplay(a, key, vs[key])])

\* a thread that runs nothing
NoThread == [pc |-> "idle", sol |-> Null, success |-> "unset"]

Idle == {t \in Threads : threads[t].pc = "idle"}

Active == {t \in Threads : threads[t].pc # "idle"}

FreeThread == CHOOSE t \in Idle : \A u \in Idle : t <= u

\* threading.Thread(target=self.run_simulation).start(), on a free thread
StartedThread == [threads EXCEPT ![FreeThread] = [NoThread EXCEPT !.pc = "sync"]]

\* the parameter values a dictionary of widget values stands for
WidgetValues(a, vs) ==
    [k \in KeySet(a) |->
        IF vs[k] = Bad THEN Bad ELSE ParamFromDisplay(a, k, vs[k])]

\* the history of a run request made with the widgets holding vs
Requested(vs) == IF requested = Null THEN Null ELSE WidgetValues(app, vs)

\* the text nomad_ui puts in the status label after a run
ResultText == "Max Position | Max Velocity | Min Pressure"

\* __init__ has run: the widgets show the defaults and the first, synchronous
\* run_simulation has drawn them
Init ==
    /\ app \in Apps
    /\ params = Defaults(app)
    /\ param_vars = [k \in KeySet(app) |-> ParamToDisplay(app, k, Defaults(app)[k])]
    /\ status_label = IF app = "dart_plunger_gui"
                      THEN "Simulation completed successfully" ELSE ResultText
    /\ messagebox = "none"
    /\ current_param_file = "none"
    /\ plots = Defaults(app)
    /\ results_text = IF app = "dart_plunger_gui" THEN Defaults(app) ELSE Null
    /\ threads = [t \in Threads |-> NoThread]
    /\ requested = Null
    /\ files = Null
    /\ sim_variant = Null
    /\ sim_params = Null
    /\ sim_pc = Null
    /\ x = Null
    /\ dxdt = Null
    /\ p_t = Null
    /\ sol = Null
    /\ p_t_array = Null

\* the user types into an entry
EditWidget(k, d) ==
    /\ param_vars[k] # d
    /\ param_vars' = [param_vars EXCEPT ![k] = d]
    /\ messagebox' = "none"
    /\ UNCHANGED <<app, requested, files, params, status_label, current_param_file, plots,
                   results_text, threads>>
    /\ UNCHANGED runVars

\* run_simulation_threaded: the Run button and the Return key
RunSimulationThreaded ==
    /\ Idle # {}
    /\ status_label' = "Running simulation..."
    /\ threads' = StartedThread
    /\ requested' = Requested(param_vars)
    /\ messagebox' = "none"
    /\ UNCHANGED <<app, files, params, param_vars, current_param_file, plots,
                   results_text>>
    /\ UNCHANGED runVars

(***************************************************************************)
(* run_simulation on worker thread t.                                      *)
(***************************************************************************)
\* the update of self.params from the widgets, and the first reads of it
\* (end_time and n_points for t_span and t_eval)
WorkerSync(t) ==
    /\ threads[t].pc = "sync"
    /\ LET r == UpdateParamsFromVars(app, 1, param_vars, params)
       IN  /\ params' = r.params
           /\ threads' = [threads EXCEPT ![t] =
                  IF r.ok
                  THEN [@ EXCEPT !.pc = "integrate", !.sol = Physical(app, r.params)]
                  ELSE [@ EXCEPT !.pc = "raise TclError"]]
    /\ messagebox' = "none"
    /\ UNCHANGED <<app, requested, files, param_vars, status_label, current_param_file, plots,
                   results_text>>
    /\ UNCHANGED runVars

\* solve_ivp calls self.system, which reads self.params as it is now; the
\* trajectory follows the values read
WorkerDerivEval(t) ==
    /\ threads[t].pc = "integrate"
    /\ threads[t].sol # Physical(app, params)
    /\ threads' = [threads EXCEPT ![t] =
           IF HasBad(app, params)
           THEN [@ EXCEPT !.pc = "raise TypeError"]
           ELSE [@ EXCEPT !.sol = Physical(app, params)]]
    /\ messagebox' = "none"
    /\ UNCHANGED <<app, requested, files, params, param_vars, status_label, current_param_file,
                   plots, results_text>>
    /\ UNCHANGED runVars

\* a run_simulation without the check of sol.success
CheckSuccessIgnored(ok) == "show"

\* where run_simulation goes once solve_ivp has returned:
\* if not sol.success: raise Exception("ODE solver failed")
CheckSuccess(ok) == IF ok THEN "show" ELSE "raise ODE solver failed"

\* solve_ivp returns, with or without success, and run_simulation checks
WorkerSolverReturn(t, ok) ==
    /\ threads[t].pc = "integrate"
    /\ threads' = [threads EXCEPT ![t] =
           [@ EXCEPT !.pc = CheckSuccess(ok),
                     !.success = IF ok THEN "true" ELSE "false"]]
    /\ messagebox' = "none"
    /\ UNCHANGED <<app, requested, files, params, param_vars, status_label, current_param_file,
                   plots, results_text>>
    /\ UNCHANGED runVars

\* the derived quantities, ax.clear(), ax.plot(...), canvas.draw() and, in
\* dart_plunger_gui.py, update_results_summary, taken as one step
WorkerShow(t) ==
    /\ threads[t].pc = "show"
    /\ plots' = threads[t].sol
    /\ results_text' = IF app = "dart_plunger_gui" THEN threads[t].sol ELSE results_text
    /\ threads' = [threads EXCEPT ![t] = [@ EXCEPT !.pc = "status"]]
    /\ messagebox' = "none"
    /\ UNCHANGED <<app, requested, files, params, param_vars, status_label, current_param_file>>
    /\ UNCHANGED runVars

\* status_label.config(text="Simulation completed successfully"); in
\* dart_plunger_gui.py the run ends here
WorkerStatusOk(t) ==
    /\ threads[t].pc = "status"
    /\ status_label' = "Simulation completed successfully"
    /\ threads' = [threads EXCEPT ![t] =
           IF app = "dart_plunger_gui" THEN NoThread ELSE [@ EXCEPT !.pc = "result"]]
    /\ messagebox' = "none"
    /\ UNCHANGED <<app, requested, files, params, param_vars, current_param_file, plots,
                   results_text>>
    /\ UNCHANGED runVars

\* nomad_ui.py: status_label.config(text=result_text)
WorkerStatusResult(t) ==
    /\ threads[t].pc = "result"
    /\ status_label' = ResultText
    /\ threads' = [threads EXCEPT ![t] = NoThread]
    /\ messagebox' = "none"
    /\ UNCHANGED <<app, requested, files, params, param_vars, current_param_file, plots,
                   results_text>>
    /\ UNCHANGED runVars

RaisePcs == {"raise TclError", "raise TypeError", "raise ODE solver failed"}

\* f"Simulation failed: {str(e)}"
SimulationFailedText(pc) ==
    CASE pc = "raise TclError" -> "Simulation failed: TclError"
      [] pc = "raise TypeError" -> "Simulation failed: TypeError"
      [] OTHER -> "Simulation failed: ODE solver failed"

\* a run_simulation whose except branch leaves the status label alone
WorkerExceptSilent(t) ==
    /\ threads[t].pc \in RaisePcs
    /\ messagebox' = SimulationFailedText(threads[t].pc)
    /\ threads' = [threads EXCEPT ![t] = NoThread]
    /\ UNCHANGED <<app, requested, files, params, param_vars, status_label,
                   current_param_file, plots, results_text>>
    /\ UNCHANGED runVars

\* except Exception as e: showerror(...); status "Simulation failed"
WorkerExcept(t) ==
    /\ threads[t].pc \in RaisePcs
    /\ messagebox' = SimulationFailedText(threads[t].pc)
    /\ status_label' = "Simulation failed"
    /\ threads' = [threads EXCEPT ![t] = NoThread]
    /\ UNCHANGED <<app, requested, files, params, param_vars, current_param_file, plots,
                   results_text>>
    /\ UNCHANGED runVars

(***************************************************************************)
(* The handlers of dart_plunger_gui.py's Save and Load buttons.  The file  *)
(* dialog returns a path or, dismissed, "cancel"; what the file system     *)
(* does with the path is the environment's choice.                         *)
(***************************************************************************)
\* the file the user picks in the dialogs
Paths == {"set.pkl"}

ExtraKey == "extra"

\* the dictionaries a file may hold: every key with one of its values, with
\* or without one key the parameter set does not have, or a key missing
FullDicts ==
    {f \in [KeySet("dart_plunger_gui") -> (0..MaxVal) \cup {Bad}] :
        \A k \in DOMAIN f : f[k] \in ValsOf(k)}

LoadableDicts ==
    FullDicts
    \cup {[k \in DOMAIN f \cup {ExtraKey} |-> IF k = ExtraKey THEN 1 ELSE f[k]] :
              f \in FullDicts}
    \cup {[k \in K |-> 1] : K \in {{}, {"D_b"}, {"gamma", ExtraKey}}}

\* what open() and pickle.load may give: an exception, an object that is no
\* dictionary, a dictionary
ReadableContents ==
    {[kind |-> "unreadable", d |-> Null], [kind |-> "notdict", d |-> Null]}
    \cup {[kind |-> "dict", d |-> f] : f \in LoadableDicts}

\* nothing is read when the dialog was dismissed
FileContents(path) ==
    IF path = "cancel" THEN {[kind |-> "none", d |-> Null]} ELSE ReadableContents

\* whether open() and pickle.dump succeed on a path
Writable(path) == IF path = "cancel" THEN {FALSE} ELSE BOOLEAN

\* the keys of self.params.items(): the original ones, then any added
ItemKeys(a, p) ==
    ParamKeys(a) \o (IF ExtraKey \in DOMAIN p THEN <<ExtraKey>> ELSE <<>>)

\* self.params.update(loaded_params)
DictUpdate(p, loaded) ==
    [k \in DOMAIN p \cup DOMAIN loaded |->
        IF k \in DOMAIN loaded THEN loaded[k] ELSE p[k]]

\* the loop of load_parameters over self.params.items(), from item i on:
\* the widgets written so far and how the loop ended
RECURSIVE SetVarsFromParams(_, _, _, _)
SetVarsFromParams(a, i, p, vs) ==
    IF i > Len(ItemKeys(a, p)) THEN [vars |-> vs, outcome |-> "ok"]
    ELSE LET key == ItemKeys(a, p)[i]
             display_value == ParamToDisplay(a, key, p[key])
         IN  IF key \notin DOMAIN vs THEN [vars |-> vs, outcome |-> "KeyError"]
             ELSE IF display_value = Bad THEN [vars |-> vs, outcome |-> "TclError"]
             ELSE SetVarsFromParams(a, i + 1, p, [vs EXCEPT ![key] = display_value])

\* the file system after save_parameters: pickle.dump wrote the dictionary p
\* to the path, or open() or pickle.dump failed and the file is as it was or
\* is left cut short; nothing is touched when the sync failed or the dialog
\* was dismissed
FilesAfterSave(path, written, p) ==
    IF files = Null \/ path = "cancel"
           \/ ~UpdateParamsFromVars(app, 1, param_vars, params).ok
    THEN {files}
    ELSE IF written
    THEN {[files EXCEPT ![path] =
              [content |-> [kind |-> "dict", d |-> p], saved |-> TRUE,
               read |-> FALSE]]}
    ELSE {files,
          [files EXCEPT ![path] =
              [content |-> [kind |-> "unreadable", d |-> Null], saved |-> FALSE,
               read |-> FALSE]]}

\* a save_parameters that updates the file label before it writes the file
SaveParametersLabelFirst(path, written) ==
    /\ app = "dart_plunger_gui"
    /\ LET r == UpdateParamsFromVars(app, 1, param_vars, params)
       IN  /\ params' = r.params
           /\ IF ~r.ok
              THEN /\ messagebox' = "Invalid parameter value"
                   /\ UNCHANGED <<status_label, current_param_file>>
              ELSE IF path = "cancel"
              THEN /\ messagebox' = "none"
                   /\ UNCHANGED <<status_label, current_param_file>>
              ELSE /\ current_param_file' = path
                   /\ IF written
                      THEN /\ status_label' = "Parameters saved successfully"
                           /\ messagebox' = "none"
                      ELSE /\ messagebox' = "Failed to save parameters"
                           /\ status_label' = "Parameter save failed"
    /\ files' \in FilesAfterSave(path, written, params')
    /\ UNCHANGED <<app, requested, param_vars, plots, results_text, threads>>
    /\ UNCHANGED runVars

\* save_parameters, with the path the dialog returned and whether the file
\* could be written
SaveParameters(path, written) ==
    /\ app = "dart_plunger_gui"
    /\ LET r == UpdateParamsFromVars(app, 1, param_vars, params)
       IN  /\ params' = r.params
           /\ IF ~r.ok
              THEN /\ messagebox' = "Invalid parameter value"
                   /\ UNCHANGED <<status_label, current_param_file>>
              ELSE IF path = "cancel"
              THEN /\ messagebox' = "none"
                   /\ UNCHANGED <<status_label, current_param_file>>
              ELSE IF written
              THEN /\ current_param_file' = path
                   /\ status_label' = "Parameters saved successfully"
                   /\ messagebox' = "none"
              ELSE /\ messagebox' = "Failed to save parameters"
                   /\ status_label' = "Parameter save failed"
                   /\ UNCHANGED current_param_file
    /\ files' \in FilesAfterSave(path, written, params')
    /\ UNCHANGED <<app, requested, param_vars, plots, results_text, threads>>
    /\ UNCHANGED runVars

\* the file system after load_parameters: the file is as it was, and has been
\* opened and read unless the dialog was dismissed
FilesAfterLoad(path) ==
    IF files = Null \/ path = "cancel" THEN files
    ELSE [files EXCEPT ![path].read = TRUE]

\* a load_parameters without the check for missing keys
MissingKeysNone(p, loaded) == {}

\* the check of load_parameters that the loaded object has every key of
\* self.params
MissingKeys(p, loaded) == {key \in DOMAIN p : key \notin DOMAIN loaded}

\* load_parameters, with the path the dialog returned and what the file gave
LoadParameters(path, loaded) ==
    /\ app = "dart_plunger_gui"
    /\ IF path = "cancel"
       THEN /\ messagebox' = "none"
            /\ UNCHANGED <<params, param_vars, status_label, current_param_file,
                           threads>>
       ELSE IF loaded.kind = "unreadable"
       THEN /\ messagebox' = "Failed to load parameters"
            /\ status_label' = "Parameter load failed"
            /\ UNCHANGED <<params, param_vars, current_param_file, threads>>
       ELSE IF loaded.kind # "dict"
       THEN /\ messagebox' = "Loaded file does not contain a valid parameter set."
            /\ status_label' = "Parameter load failed"
            /\ UNCHANGED <<params, param_vars, current_param_file, threads>>
       ELSE IF MissingKeys(params, loaded.d) # {}
       THEN /\ messagebox' = "Loaded parameter set is missing keys"
            /\ status_label' = "Parameter load failed"
            /\ UNCHANGED <<params, param_vars, current_param_file, threads>>
       ELSE LET updated == DictUpdate(params, loaded.d)
                r == SetVarsFromParams(app, 1, updated, param_vars)
            IN  /\ params' = updated
                /\ param_vars' = r.vars
                /\ CASE r.outcome = "TclError" ->
                          /\ messagebox' = "Invalid value for parameter"
                          /\ status_label' = "Parameter load failed"
                          /\ UNCHANGED <<current_param_file, threads>>
                     [] r.outcome = "KeyError" ->
                          \* not caught: the handler ends here
                          /\ messagebox' = "none"
                          /\ UNCHANGED <<status_label, current_param_file, threads>>
                     [] r.outcome = "ok" ->
                          /\ Idle # {}
                          /\ current_param_file' = path
                          \* "Parameters loaded successfully" is overwritten
                          \* at once by run_simulation_threaded
                          /\ status_label' = "Running simulation..."
                          /\ threads' = StartedThread
                          /\ messagebox' = "none"
    /\ requested' = IF threads' # threads THEN Requested(param_vars') ELSE requested
    /\ files' = FilesAfterLoad(path)
    /\ UNCHANGED <<app, plots, results_text>>
    /\ UNCHANGED runVars

\* reset_parameters (nomad_ui.py)
ResetParameters ==
    /\ app = "nomad_ui"
    /\ Idle # {}
    /\ param_vars' = [k \in DOMAIN param_vars |->
           IF k \in DOMAIN ResetDefaults THEN ResetDefaults[k] ELSE param_vars[k]]
    /\ status_label' = "Running simulation..."
    /\ threads' = StartedThread
    /\ requested' = Requested(param_vars')
    /\ messagebox' = "none"
    /\ UNCHANGED <<app, files, params, current_param_file, plots, results_text>>
    /\ UNCHANGED runVars

\* the values a user may type: a number in display units, or no number
DisplayVals(a, k) == {ParamToDisplay(a, k, v) : v \in ValsOf(k)}

Next ==
    \/ \E k \in KeySet(app) : \E d \in DisplayVals(app, k) : EditWidget(k, d)
    \/ RunSimulationThreaded
    \/ \E path \in Paths \cup {"cancel"} : \E written \in Writable(path) :
           SaveParameters(path, written)
    \/ \E path \in Paths \cup {"cancel"} : \E loaded \in FileContents(path) :
           LoadParameters(path, loaded)
    \/ ResetParameters
    \/ \E t \in Threads : WorkerSync(t)
    \/ \E t \in Threads : WorkerDerivEval(t)
    \/ \E t \in Threads : \E ok \in BOOLEAN : WorkerSolverReturn(t, ok)
    \/ \E t \in Threads : WorkerShow(t)
    \/ \E t \in Threads : WorkerStatusOk(t)
    \/ \E t \in Threads : WorkerStatusResult(t)
    \/ \E t \in Threads : WorkerExcept(t)

Spec == Init /\ [][Next]_vars

(***************************************************************************)
(* Claims about the GUI variants (checked under Spec).                     *)
(***************************************************************************)
\* what a file gives when load_parameters must reject it: an object that is
\* no dictionary, or a dictionary without some key of self.params
RejectedContent(loaded) ==
    \/ loaded.kind = "notdict"
    \/ /\ loaded.kind = "dict"
       /\ \E key \in DOMAIN params : key \notin DOMAIN loaded.d

LoadRejectedStep ==
    \A path \in Paths : \A loaded \in ReadableContents :
        (RejectedContent(loaded) /\ LoadParameters(path, loaded)) =>
            /\ params' = params
            /\ param_vars' = param_vars
            /\ threads' = threads
            /\ status_label' = "Parameter load failed"
            /\ messagebox' \in {"Loaded file does not contain a valid parameter set.",
                                "Loaded parameter set is missing keys"}

\* C1: a load of an object that is no mapping, or of a mapping that lacks a
\* key of the current parameter set, is rejected: an error is shown, every
\* value of self.params is what it was and no run is started.
C1_RejectedLoadKeepsParams == [][LoadRejectedStep]_vars

\* a load was just rejected for missing keys, with a parameter set that is
\* no longer the initial one
C1_Witness ==
    /\ messagebox = "Loaded parameter set is missing keys"
    /\ status_label = "Parameter load failed"
    /\ params # Defaults(app)

\* a dictionary with every key of self.params and a value the widget rejects
WidgetRejectedContent(loaded) ==
    /\ loaded.kind = "dict"
    /\ \A key \in DOMAIN params : key \in DOMAIN loaded.d
    /\ \E key \in DOMAIN params : loaded.d[key] = Bad

LoadWidgetRejectedStep ==
    \A path \in Paths : \A loaded \in ReadableContents :
        (WidgetRejectedContent(loaded) /\ LoadParameters(path, loaded)) =>
            /\ messagebox' = "Invalid value for parameter"
            /\ params' = params

\* C2: a load of a mapping with every required key and a value the widget
\* rejects shows the error and leaves every key of self.params at the value
\* it had before the load.
C2_WidgetRejectedLoadKeepsParams == [][LoadWidgetRejectedStep]_vars

\* C3: at most one run_simulation is active at a time.
C3_AtMostOneRunActive == Cardinality(Active) <= 1

ReadsStartValuesStep ==
    \A t \in Threads :
        threads[t].pc = "integrate" =>
            \/ threads'[t].pc = "integrate" /\ threads'[t].sol = threads[t].sol
            \/ threads'[t].pc \in {"show", "raise ODE solver failed"}

\* C4: from the moment a run begins integrating until it finishes, every
\* parameter value the derivative function reads is the value it had at the
\* start of the run, whatever other action happens in between.
C4_DerivativeReadsStartValues == [][ReadsStartValuesStep]_vars

FailedRunStep ==
    /\ \A t \in Threads :
           (threads[t].success = "false" /\ threads'[t] # threads[t]) =>
               /\ threads[t].pc = "raise ODE solver failed"
               /\ messagebox' = "Simulation failed: ODE solver failed"
               /\ status_label' = "Simulation failed"
               /\ threads'[t] = NoThread
               /\ plots' = plots
               /\ results_text' = results_text
    /\ (plots' # plots \/ results_text' # results_text) =>
           \E t \in Threads :
               /\ threads[t].success = "true"
               /\ threads'[t] # threads[t]
               /\ plots' = threads[t].sol

\* C5: a run whose integrator reported non-success shows an error, sets the
\* status to "Simulation failed" and keeps no result: it never draws, so the
\* plots and the results summary change only by runs whose integrator
\* succeeded.
C5_FailedRunKeepsNoResult == [][FailedRunStep]_vars

\* the error of a run whose integrator did not succeed has just been shown
C5_Witness ==
    /\ messagebox = "Simulation failed: ODE solver failed"
    /\ status_label = "Simulation failed"

(***************************************************************************)
(* Claims about one run (checked under SpecRun).                           *)
(***************************************************************************)

\* C6 (as claimed): in all four variants the caller looks at sol.success
\* before it uses the trajectory, so derived quantities are only ever computed
\* from a successful result.
C6_SuccessCheckedBeforeDerived ==
    sim_pc \in {"derive", "done"} => sol.success

\* C7 (as claimed): in every variant the base handed to the exponentiation is
\* at least the floor, hence strictly positive, and the derivative vector is
\* finite, whatever state the integrator evaluates.
C7_RatioFlooredAndFinite ==
    Evaluated =>
        /\ LessEq(VolumeRatioFloor, SystemPowBase(sim_variant, sim_params, x))
        /\ AllFinite(dxdt)

\* C8: the derived pressure at an output sample equals the p_t the derivative
\* function computed when it was evaluated at that sample, in each variant.
C8_DerivedPressureMatchesInternal ==
    sim_pc = "done" => (~IsNaN(p_t_array) /\ p_t_array = sol.p_t)

\* C8 witness: a finished dart_plunger_gui run whose last sample has the
\* plunger at the end of the tube (raw volume zero, the floor in force).
C8_Witness ==
    /\ sim_pc = "done"
    /\ sim_variant = "dart_plunger_gui"
    /\ sol.y[1] = R(0)
    /\ sol.y[3] = R(sim_params.L_0)

\* the value C9 claims: ((p0 - p_2) * A - friction) / mass with A = pi D^2 / 4
RestAcceleration(p0, P) ==
    Div(Sub(Mul(Sub(p0, R(P.p_2)), Div(Mul(PI, R(P.D * P.D)), R(4))),
            R(P.fric1)),
        R(P.mass))

C10_PlungerAtRestNoForce ==
    (/\ sim_variant \in TwoBody
     /\ Evaluated
     /\ x = X0(sim_variant)
     /\ sim_params.k = 0
     /\ sim_params.p_0 = sim_params.p_2) => dxdt[4] = R(0)

\* C10 witness: such an evaluation, with unequal diameters.
C10_Witness ==
    /\ sim_variant = "dart_plunger_gui"
    /\ Evaluated
    /\ x = X0(sim_variant)
    /\ sim_params.k = 0
    /\ sim_params.p_0 = sim_params.p_2
    /\ sim_params.D_p # sim_params.D_b

\* the friction a position threshold selects: fric1 at or below it, fric2 above
SelectedFriction(P, x1, threshold) ==
    IF LessEq(x1, threshold) THEN R(P.fric1) ELSE R(P.fric2)

\* C11: in the single-body model nomad_ui.py subtracts the friction selected
\* by the position threshold (0.03), while nomad.py subtracts the constant
\* fric1 at every position, whatever its threshold (0.005) selects.
C11_FrictionSelectedOrConstant ==
    (sim_variant \in SingleBody /\ Evaluated) =>
        LET P == sim_params
            area == Div(Mul(PI, R(P.D * P.D)), R(4))
            pressure_force == Mul(Sub(p_t, R(P.p_2)), area)
            subtracted == IF sim_variant = "nomad_ui"
                          THEN SelectedFriction(P, x[1], [n |-> 3, d |-> 100])
                          ELSE R(P.fric1)
        IN  dxdt[2] = Div(Sub(pressure_force, subtracted), R(P.mass))

\* C11 witness: nomad.py evaluated beyond its threshold, where the selection
\* is fric2 and differs from fric1, with a finite acceleration.
C11_Witness ==
    /\ sim_variant = "nomad"
    /\ Evaluated
    /\ x[1] = R(1)
    /\ SelectedFriction(sim_params, x[1], [n |-> 5, d |-> 1000]) # R(sim_params.fric1)
    /\ IsFinite(dxdt[2])

\* a value code inside the physical range of its parameter
InRange(value) == value >= 1

\* C12: every parameter set a run integrates with satisfies the data-model
\* invariant (geometric and mass quantities strictly positive, adiabatic
\* index > 1, end time > 0, point count >= 2), after any sequence of widget
\* edits, loads and resets.
C12_IntegratedParamsInRange ==
    \A t \in Threads :
        threads[t].pc = "integrate" =>
            \A key \in KeySet(app) : InRange(threads[t].sol[key])

\* a dictionary with at least every key of self.params and only numbers
AcceptableContent(loaded) ==
    /\ loaded.kind = "dict"
    /\ \A key \in DOMAIN params : key \in DOMAIN loaded.d
    /\ \A key \in DOMAIN loaded.d : loaded.d[key] # Bad

LoadAcceptedStep ==
    \A path \in Paths : \A loaded \in ReadableContents :
        (AcceptableContent(loaded) /\ LoadParameters(path, loaded)) =>
            /\ \A key \in KeySet(app) : params'[key] = loaded.d[key]
            /\ current_param_file' = path
            /\ status_label' \in {"Parameters loaded successfully",
                                  "Running simulation..."}
            /\ \E t \in Threads : threads[t].pc = "idle" /\ threads'[t].pc = "sync"

\* C13: a load of any mapping with at least every key of the current
\* parameter set, additional keys included, completes: every required key
\* takes the loaded value, the load is reported as successful and a run is
\* started.
C13_SupersetLoadCompletes == [][LoadAcceptedStep]_vars

\* open() or pickle.load raised
Unreadable == [kind |-> "unreadable", d |-> Null]

LoadIOFailedStep ==
    \A path \in Paths :
        LoadParameters(path, Unreadable) =>
            /\ messagebox' = "Failed to load parameters"
            /\ status_label' = "Parameter load failed"
            /\ current_param_file' = current_param_file
            /\ params' = params
            /\ param_vars' = param_vars
            /\ threads' = threads

SaveIOFailedStep ==
    \A path \in Paths :
        ((\A key \in KeySet(app) : param_vars[key] # Bad)
             /\ SaveParameters(path, FALSE)) =>
            /\ messagebox' = "Failed to save parameters"
            /\ status_label' = "Parameter save failed"
            /\ current_param_file' = current_param_file

\* C14: a file I/O failure in load_parameters or save_parameters is shown
\* and the operation aborted: the status becomes "Parameter load failed" or
\* "Parameter save failed", the parameter-file label is not changed, and a
\* failed load leaves the parameter set and the widgets as they were and
\* starts no run.
C14_IOFailureAborts == [][LoadIOFailedStep /\ SaveIOFailedStep]_vars

\* a load has just failed on an unreadable file, after an earlier save set
\* the file label and with a parameter set that is no longer the initial one
C14_Witness ==
    /\ messagebox = "Failed to load parameters"
    /\ status_label = "Parameter load failed"
    /\ current_param_file = "set.pkl"
    /\ params # Defaults(app)

\* friction values to compare parameter sets over
FrictionVals == {0, 1, 2}

\* C15: in the two-body model the dart acceleration is
\* (p_t - p_2) * area_b / mass_d, and parameter sets that differ only in
\* fric1 and fric2 give the same derivative vector at every state.
C15_DartAccelerationIgnoresFriction ==
    (sim_variant \in TwoBody /\ Evaluated) =>
        LET P == sim_params
            area_b == Div(Mul(PI, R(P.D_b * P.D_b)), R(4))
        IN  /\ dxdt[2] = Div(Mul(Sub(p_t, R(P.p_2)), area_b), R(P.mass_d))
            /\ \A f1 \in FrictionVals : \A f2 \in FrictionVals :
                   System(sim_variant, [P EXCEPT !.fric1 = f1, !.fric2 = f2], x) = dxdt

\* C15 witness: dart_plunger_gui.py evaluated with the dart ahead of its rest
\* position, where the gas has expanded and the dart's acceleration is finite
\* and not zero.
C15_Witness ==
    /\ sim_variant = "dart_plunger_gui"
    /\ Evaluated
    /\ x[1] = R(1)
    /\ IsFinite(dxdt[2])
    /\ dxdt[2] # R(0)

ResetStep ==
    ResetParameters =>
        \A key \in KeySet(app) :
            param_vars'[key] = ParamToDisplay(app, key, Defaults(app)[key])

\* C16: after reset_parameters every parameter widget, v_expand, p_0 and p_2
\* included, holds the default value the parameter set had at construction.
C16_ResetRestoresConstructionDefaults == [][ResetStep]_vars

\* the messages a run ends with
CompletionMessages ==
    {"Simulation completed successfully", "Simulation failed", ResultText}

\* the runs in flight, but for one that has written its own completion
\* message and is about to replace it by the result text (nomad_ui.py)
InFlight == {t \in Threads : threads[t].pc \notin {"idle", "result"}}

\* C18: the status label shows a completion message only when no run started
\* by run_simulation_threaded is still in flight.
C18_CompletionOnlyWhenNoRunInFlight ==
    InFlight # {} => status_label \notin CompletionMessages

SyncFailedStep ==
    /\ \A t \in Threads :
           (threads[t].pc = "sync" /\ threads'[t].pc = "raise TclError") =>
               params' = params
    /\ \A path \in Paths \cup {"cancel"} : \A written \in BOOLEAN :
           ((\E key \in KeySet(app) : param_vars[key] = Bad)
                /\ SaveParameters(path, written)) =>
               /\ params' = params
               /\ current_param_file' = current_param_file

\* C19: syncing the parameter set from the widgets is all-or-nothing: when
\* save_parameters or run_simulation fails on an invalid widget value, no
\* file is written, no integration is run and every key of self.params holds
\* the value it had before the call.
C19_SyncAllOrNothing == [][SyncFailedStep]_vars

(***************************************************************************)
(* SpecOrder: the GUI of Spec with the history of run requests recorded.   *)
(***************************************************************************)
\* as Init, with the first, synchronous run requested from the defaults
InitOrder ==
    /\ app \in Apps
    /\ params = Defaults(app)
    /\ param_vars = [k \in KeySet(app) |-> ParamToDisplay(app, k, Defaults(app)[k])]
    /\ status_label = IF app = "dart_plunger_gui"
                      THEN "Simulation completed successfully" ELSE ResultText
    /\ messagebox = "none"
    /\ current_param_file = "none"
    /\ plots = Defaults(app)
    /\ results_text = IF app = "dart_plunger_gui" THEN Defaults(app) ELSE Null
    /\ threads = [t \in Threads |-> NoThread]
    /\ requested = Defaults(app)
    /\ files = Null
    /\ sim_variant = Null
    /\ sim_params = Null
    /\ sim_pc = Null
    /\ x = Null
    /\ dxdt = Null
    /\ p_t = Null
    /\ sol = Null
    /\ p_t_array = Null

\* the run requests of the Run button, the Return key and Reset, and the
\* worker threads; the file handlers are left to Spec
NextOrder ==
    \/ \E k \in KeySet(app) : \E d \in DisplayVals(app, k) : EditWidget(k, d)
    \/ RunSimulationThreaded
    \/ ResetParameters
    \/ \E t \in Threads : WorkerSync(t)
    \/ \E t \in Threads : WorkerDerivEval(t)
    \/ \E t \in Threads : \E ok \in BOOLEAN : WorkerSolverReturn(t, ok)
    \/ \E t \in Threads : WorkerShow(t)
    \/ \E t \in Threads : WorkerStatusOk(t)
    \/ \E t \in Threads : WorkerStatusResult(t)
    \/ \E t \in Threads : WorkerExcept(t)

SpecOrder == InitOrder /\ [][NextOrder]_vars

\* the messages of a run that ended with success
SuccessMessages == {"Simulation completed successfully", ResultText}

\* C17: once every run has finished, the displayed plots, results summary and
\* status are those of the most recently requested run, computed with the
\* parameter values that were in the widgets when that run was requested.
C17_DisplayIsOfLatestRequest ==
    (Active = {} /\ status_label \in SuccessMessages) =>
        /\ plots = requested
        /\ app = "dart_plunger_gui" => results_text = requested

(***************************************************************************)
(* SpecLive: Spec with the scheduling the threads get: a worker thread     *)
(* that can take its next step eventually takes it, and solve_ivp          *)
(* eventually returns.                                                     *)
(***************************************************************************)
WorkerFairness(t) ==
    /\ WF_vars(WorkerSync(t))
    /\ WF_vars(\E ok \in BOOLEAN : WorkerSolverReturn(t, ok))
    /\ WF_vars(WorkerShow(t))
    /\ WF_vars(WorkerStatusOk(t))
    /\ WF_vars(WorkerStatusResult(t))
    /\ WF_vars(WorkerExcept(t))

SpecLive == Init /\ [][Next]_vars /\ \A t \in Threads : WorkerFairness(t)

RunEndStep ==
    \A t \in Threads :
        (threads[t].pc # "idle" /\ threads'[t].pc = "idle") =>
            status_label' \in CompletionMessages

\* C20: every run started by run_simulation_threaded eventually ends, it ends
\* by setting the status to a success message or to "Simulation failed", and
\* once all runs have ended the status is not left at "Running simulation...".
C20_RunsEndWithStatus ==
    /\ \A t \in Threads : (threads[t].pc # "idle") ~> (threads[t].pc = "idle")
    /\ [][RunEndStep]_vars
    /\ [](Active = {} => status_label # "Running simulation...")

\* a run that raised has ended: all threads idle, the failure shown
C20_Witness ==
    /\ Active = {}
    /\ status_label = "Simulation failed"
    /\ messagebox = "Simulation failed: TypeError"

(***************************************************************************)
(* SpecFile: dart_plunger_gui.py with the file system kept.  A file holds  *)
(* at first anything another program or an earlier session left there;     *)
(* load_parameters reads what the file holds when it is called.            *)
(***************************************************************************)
InitFile ==
    /\ app = "dart_plunger_gui"
    /\ params = Defaults(app)
    /\ param_vars = [k \in KeySet(app) |-> ParamToDisplay(app, k, Defaults(app)[k])]
    /\ status_label = "Simulation completed successfully"
    /\ messagebox = "none"
    /\ current_param_file = "none"
    /\ plots = Defaults(app)
    /\ results_text = Defaults(app)
    /\ threads = [t \in Threads |-> NoThread]
    /\ requested = Null
    /\ files \in [Paths -> {[content |-> c, saved |-> FALSE, read |-> FALSE] :
                               c \in ReadableContents}]
    /\ sim_variant = Null
    /\ sim_params = Null
    /\ sim_pc = Null
    /\ x = Null
    /\ dxdt = Null
    /\ p_t = Null
    /\ sol = Null
    /\ p_t_array = Null

NextFile ==
    \/ \E k \in KeySet(app) : \E d \in DisplayVals(app, k) : EditWidget(k, d)
    \/ RunSimulationThreaded
    \/ \E path \in Paths \cup {"cancel"} : \E written \in Writable(path) :
           SaveParameters(path, written)
    \/ \E path \in Paths : LoadParameters(path, files[path].content)
    \/ LoadParameters("cancel", [kind |-> "none", d |-> Null])
    \/ \E t \in Threads : WorkerSync(t)
    \/ \E t \in Threads : WorkerDerivEval(t)
    \/ \E t \in Threads : \E ok \in BOOLEAN : WorkerSolverReturn(t, ok)
    \/ \E t \in Threads : WorkerShow(t)
    \/ \E t \in Threads : WorkerStatusOk(t)
    \/ \E t \in Threads : WorkerExcept(t)

SpecFile == InitFile /\ [][NextFile]_vars

\* the widgets stand for the values of the dictionary d on every key they show
WidgetsStandFor(d) ==
    \A k \in KeySet(app) :
        k \in DOMAIN d /\ WidgetValues(app, param_vars)[k] = d[k]

\* load_parameters reads back a file that save_parameters wrote, the widgets
\* as the save left them: self.params is then the saved dictionary, and so is
\* what the sync of the run it starts makes of the widgets
RoundTripLoadStep ==
    \A path \in Paths :
        (/\ files[path].saved
         /\ WidgetsStandFor(files[path].content.d)
         /\ LoadParameters(path, files[path].content))
        => /\ params' = files[path].content.d
           /\ UpdateParamsFromVars(app, 1, param_vars', params')
                  = [params |-> files[path].content.d, ok |-> TRUE]

\* the sync of a run made while the widgets are as the save left them and the
\* file has been read back
RoundTripSyncStep ==
    \A path \in Paths :
        (/\ files[path].saved
         /\ files[path].read
         /\ WidgetsStandFor(files[path].content.d)
         /\ \E t \in Threads : WorkerSync(t))
        => params' = files[path].content.d

\* C21: save followed by load of the same file is a round trip: with no
\* widget edit in between, after save_parameters wrote the file and
\* load_parameters read it back, and after the run it starts has synced from
\* the widgets, self.params equals the saved dictionary on every key.
C21_SaveLoadRoundTrip == [][RoundTripLoadStep /\ RoundTripSyncStep]_vars

\* a saved file with a diameter other than the default has been read back and
\* the run started by the load has synced and is past its integration
C21_Witness ==
    \E path \in Paths :
        /\ files[path].saved
        /\ files[path].read
        /\ files[path].content.d["D_b"] # Defaults(app)["D_b"]
        /\ WidgetsStandFor(files[path].content.d)
        /\ params = files[path].content.d
        /\ current_param_file = path
        /\ \E t \in Threads : threads[t].pc = "show"

====
